---- MODULE Spec2Model ----
(***************************************************************************)
(* aws_lambda_builders/workflow.py: the workflow registry filled by        *)
(* _WorkflowMetaClass.__new__, the binary validation gate (sanitize) and   *)
(* the action pipeline of BaseWorkflow.run.                                *)
(*                                                                         *)
(* Resolvers, Validators and Actions are external collaborators: what they *)
(* return or raise is drawn when the code calls them.                      *)
(***************************************************************************)
EXTENDS Integers, Sequences, FiniteSets, TLC

\* ------------------------------------------------------------- bounds
MaxCands == 2
MaxActions == 2
MaxTypes == 3
MaxPathLen == 3

\* ------------------------------------------------------------- values
NoneVal == "<None>"

NAME == "PythonPipBuilder"

\* the places a tool is looked for, in search order
SearchOrder == <<"/opt/bin/tool", "/usr/local/bin/tool", "/usr/bin/tool", "/bin/tool">>

ActionNames == <<"CopySource", "ResolveDependencies", "CompileSource", "Cleanup">>

Messages == {"exit 1"}

\* the path a Validator hands back when it normalizes the candidate
Realpath(p) == IF p = "/opt/bin/tool" THEN "/opt/tool-3.7/bin/tool" ELSE "/usr/lib/tool/bin/tool"

RECURSIVE SubSeqs(_)
SubSeqs(s) ==
  IF s = <<>> THEN {<<>>}
  ELSE LET rest == SubSeqs(Tail(s))
       IN rest \cup {<<Head(s)>> \o r : r \in rest}

\* candidate lists a Resolver (or the caller) can supply: the places among the
\* first MaxCands of the search order where the tool is found, in that order
CandLists == SubSeqs(SubSeq(SearchOrder, 1, MaxCands))

\* what a workflow's get_resolvers() can return (each resolver by its binary name):
\* nothing, one resolver, two of different names, two of the same name
ResolverLists == {<<>>, <<"python">>, <<"python", "pip">>, <<"python", "python">>}

\* how many validators get_validators() can return
ValidatorCounts == 0..2

Truthy_NotNone(v) == v /= NoneVal

\* python truthiness of a returned path: None and "" are falsy
Truthy(v) == v /= NoneVal /\ v /= ""

Min(a, b) == IF a < b THEN a ELSE b

\* a path or a file name is the sequence of its characters
Chars == {"/", "a", "b"}

RECURSIVE SeqsUpTo(_, _)
SeqsUpTo(S, n) ==
  IF n = 0 THEN {<<>>}
  ELSE LET shorter == SeqsUpTo(S, n - 1)
       IN shorter \cup {Append(q, c) : q \in {t \in shorter : Len(t) = n - 1}, c \in S}

\* the manifest paths a caller can pass
ManifestPaths == SeqsUpTo(Chars, MaxPathLen)

\* the SUPPORTED_MANIFESTS lists a workflow class can declare
ManifestLists == SubSeqs(<< <<"a">>, <<"b">>, <<"a", "b">> >>)

Range(q) == {q[i] : i \in 1..Len(q)}

\* ------------------------------------------------------------- state
VARIABLES
  registry,     \* DEFAULT_REGISTRY: function from Capability to the id of a class
  classes,      \* the workflow classes created so far, in definition order
  lastDef,      \* the last class statement, how it ended, and the registry before it
  actions,      \* self.actions
  resolvers,    \* what get_resolvers() returns: the binary name of each resolver
  nvalidators,  \* how many validators get_validators() returns
  binaries,     \* self._binaries, a dict in insertion order: Seq of BinaryPath
  extCalls,     \* number of get_resolvers()/get_validators() invocations
  binaries0,    \* self._binaries as run() found it
  pc,           \* position inside run()
  valid_paths,  \* wrapper local
  bi,           \* index of the requirement the gate is at
  exec_paths,   \* wrapper local: candidate list of the current requirement
  ci,           \* index of the candidate the gate is at
  ai,           \* index of the action run() is at
  reads,        \* log of resolver.exec_paths reads
  calls,        \* log of Validator.validate and Action.execute calls
  result,       \* how run() ended
  config,       \* the fields __init__ sets from its arguments
  SUPPORTED_MANIFESTS,  \* the class attribute
  supported     \* what is_supported() returned, once it was called

regVars == <<registry, classes, lastDef>>
wfVars == <<actions, resolvers, nvalidators>>
gateVars == <<valid_paths, bi, exec_paths, ci>>
cfgVars == <<config, SUPPORTED_MANIFESTS, supported>>
vars == <<registry, classes, lastDef, actions, resolvers, nvalidators, binaries, extCalls,
          binaries0, pc, valid_paths, bi, exec_paths, ci, ai, reads, calls, result,
          config, SUPPORTED_MANIFESTS, supported>>

\* ------------------------------------------------------------- BinaryPath
NoBinaryPath == [list |-> FALSE, paths |-> <<>>]

\* BinaryPath(resolver=resolver, validator=validator, binary=resolver.binary)
NewBinaryPath(name, i) ==
  [binary |-> name, pair |-> i, path_provided |-> FALSE, binary_path |-> NoBinaryPath]

Keys(d) == {d[i].binary : i \in 1..Len(d)}

IndexOf(d, k) == CHOOSE i \in 1..Len(d) : d[i].binary = k

DictSet_KeepFirst(d, v) == IF v.binary \in Keys(d) THEN d ELSE Append(d, v)

\* d[k] = v on a dict kept in insertion order
DictSet(d, v) ==
  IF v.binary \in Keys(d) THEN [d EXCEPT ![IndexOf(d, v.binary)] = v] ELSE Append(d, v)

RECURSIVE ZipDict(_, _, _)
ZipDict(rs, n, i) ==
  IF i = 0 THEN <<>> ELSE DictSet(ZipDict(rs, n, i - 1), NewBinaryPath(rs[i], i))

\* the dict comprehension over zip(resolvers, validators)
BuildBinaries == ZipDict(resolvers, nvalidators, Min(Len(resolvers), nvalidators))

\* the binaries property: value returned, and the extension-point calls it costs
BinariesGet == IF binaries = <<>> THEN BuildBinaries ELSE binaries

BinariesGetCalls == IF binaries = <<>> THEN 1 ELSE 0

\* ------------------------------------------------------------- faults
NoResult == [kind |-> "running", workflow_name |-> NoneVal, action_name |-> NoneVal, reason |-> NoneVal]

Returned == [kind |-> "returned", workflow_name |-> NoneVal, action_name |-> NoneVal, reason |-> NoneVal]

WorkflowFailedError(wf, act, why) ==
  [kind |-> "WorkflowFailedError", workflow_name |-> wf, action_name |-> act, reason |-> why]

WorkflowUnknownError(wf, act, why) ==
  [kind |-> "WorkflowUnknownError", workflow_name |-> wf, action_name |-> act, reason |-> why]

Propagated_AsUnknown(ex) == WorkflowUnknownError(NAME, NoneVal, ex.msg)

\* an exception nobody catches leaves run() as it is
Propagated(ex) ==
  [kind |-> ex.type, workflow_name |-> NoneVal, action_name |-> NoneVal, reason |-> ex.msg]

\* str(ex)
Str(ex) == ex.msg

\* ------------------------------------------------------------- collaborators
\* what Validator.validate(path) can do: return a path (the candidate or its
\* normalized form), return nothing usable (None or ""), signal a mismatch, or
\* fail otherwise
ValidatorOutcomes(p) ==
  {[raises |-> "", ret |-> r, msg |-> ""] : r \in {p, Realpath(p), NoneVal, ""}}
    \cup {[raises |-> "MisMatchRuntimeError", ret |-> NoneVal, msg |-> "mismatch"],
          [raises |-> "OSError", ret |-> NoneVal, msg |-> "no such file"]}

\* what Action.execute() can do: return, or raise one of three kinds of fault
ActionOutcomes ==
  {[raises |-> "", msg |-> ""]}
    \cup {[raises |-> t, msg |-> m] :
            t \in {"ActionFailedError", "RuntimeError", "KeyboardInterrupt"}, m \in Messages}

\* the faults `except Exception` catches: KeyboardInterrupt and SystemExit are not among them
IsException(t) == t \in {"ActionFailedError", "RuntimeError", "OSError", "MisMatchRuntimeError"}

ValidateCall(b, p, out) ==
  [op |-> "validate", target |-> b, arg |-> p, raises |-> out.raises, ret |-> out.ret, msg |-> out.msg]

ExecuteCall(a, out) ==
  [op |-> "execute", target |-> a, arg |-> NoneVal, raises |-> out.raises, ret |-> NoneVal, msg |-> out.msg]

\* ------------------------------------------------------------- workflow classes
\* a class attribute value, with its python type
PyNone == [type |-> "NoneType", val |-> ""]

PyStr(v) == [type |-> "str", val |-> v]

NameValues == {PyNone, PyStr(""), PyStr("PythonPipBuilder")}

\* Capability(language, dependency_manager, application_framework), line 25
Capability(l, d, a) ==
  [type |-> "Capability", language |-> l, dependency_manager |-> d, application_framework |-> a]

NoCapability ==
  [type |-> "NoneType", language |-> NoneVal, dependency_manager |-> NoneVal,
   application_framework |-> NoneVal]

CapabilityKeys == {Capability("python", "pip", NoneVal), Capability(NoneVal, NoneVal, NoneVal)}

CapabilityValues == CapabilityKeys \cup {NoCapability}

\* the class statements a program can contain
ClassStatements ==
  [name : {"BaseWorkflow", "MyWorkflow"}, NAME : NameValues, CAPABILITY : CapabilityValues,
   TESTING : BOOLEAN]

NoClass == [name |-> "", NAME |-> PyNone, CAPABILITY |-> NoCapability, TESTING |-> FALSE]

SkipsRegistration_BaseOnly(cls) == cls.name = "BaseWorkflow"

\* line 77
SkipsRegistration(cls) == cls.name = "BaseWorkflow" \/ cls.TESTING

\* line 83: isinstance(cls.NAME, six.string_types)
HasValidName(cls) == cls.NAME.type = "str"

\* line 87: isinstance(cls.CAPABILITY, Capability)
HasValidCapability(cls) == cls.CAPABILITY.type = "Capability"

\* lines 77-93: how the class statement ends
DefineOutcome(cls) ==
  IF SkipsRegistration(cls) THEN "skipped"
  ELSE IF ~HasValidName(cls) THEN "ValueError: Workflow must provide a valid name"
  ELSE IF ~HasValidCapability(cls) THEN "ValueError: Workflow must register valid capabilities"
  ELSE "registered"

\* DEFAULT_REGISTRY[key] = cls: insert, or overwrite what the key mapped to
RegistrySet(reg, key, id) == (key :> id) @@ reg

\* ------------------------------------------------------------- construction
\* lines 162-171: the constructor arguments as the instance keeps them
Config(manifest) ==
  [source_dir |-> "/src", artifacts_dir |-> "/artifacts", scratch_dir |-> "/scratch",
   manifest_path |-> manifest, runtime |-> NoneVal, executable_search_paths |-> NoneVal,
   optimizations |-> NoneVal, options |-> NoneVal]

NotCalled == [called |-> FALSE, ret |-> FALSE]

\* a new instance of a workflow class declaring the manifests list
NewWorkflow(manifest, manifests) ==
  /\ config = Config(manifest)
  /\ SUPPORTED_MANIFESTS = manifests
  /\ supported = NotCalled
  /\ registry = <<>>
  /\ classes = <<>>
  /\ lastDef = [cls |-> NoClass, outcome |-> "none", before |-> <<>>]
  /\ \E n \in 0..MaxActions : actions = SubSeq(ActionNames, 1, n)
  /\ resolvers \in ResolverLists
  /\ nvalidators \in ValidatorCounts
  /\ binaries = <<>>
  /\ extCalls = 0
  /\ binaries0 = <<>>
  /\ pc = "idle"
  /\ valid_paths = <<>>
  /\ bi = 0
  /\ exec_paths = <<>>
  /\ ci = 0
  /\ ai = 0
  /\ reads = <<>>
  /\ calls = <<>>
  /\ result = NoResult

\* a workflow that keeps the default SUPPORTED_MANIFESTS = [] of line 112
Init == NewWorkflow(<<"a", "/", "b">>, <<>>)

\* lines 68-93: _WorkflowMetaClass.__new__ for one class statement
DefineWorkflow ==
  /\ pc = "idle"
  /\ Len(classes) < MaxTypes
  /\ \E cls \in ClassStatements :
       LET outcome == DefineOutcome(cls)
           id == Len(classes) + 1
       IN /\ lastDef' = [cls |-> cls, outcome |-> outcome, before |-> registry]
          /\ classes' = IF outcome \in {"skipped", "registered"} THEN Append(classes, cls)
                        ELSE classes
          /\ registry' = IF outcome = "registered" THEN RegistrySet(registry, cls.CAPABILITY, id)
                         ELSE registry
  /\ UNCHANGED <<wfVars, cfgVars, gateVars, binaries, extCalls, binaries0, pc, ai, reads, calls, result>>

\* ------------------------------------------------------------- the caller
\* workflow.binaries[b].binary_path = paths, before run()
ProvidePath ==
  /\ pc = "idle"
  /\ \E i \in 1..Len(BinariesGet), paths \in CandLists \ {<<>>} :
       /\ ~BinariesGet[i].path_provided
       /\ binaries' = [BinariesGet EXCEPT ![i].binary_path = [list |-> TRUE, paths |-> paths],
                                          ![i].path_provided = TRUE]
  /\ extCalls' = extCalls + BinariesGetCalls
  /\ UNCHANGED <<regVars, wfVars, cfgVars, gateVars, binaries0, pc, ai, reads, calls, result>>

\* ------------------------------------------------------------- sanitize.wrapper
\* lines 37-39: valid_paths = []; binaries_copy = self.binaries
RunEnter ==
  /\ pc = "idle"
  /\ valid_paths' = <<>>
  /\ binaries' = BinariesGet
  /\ extCalls' = extCalls + BinariesGetCalls
  /\ binaries0' = BinariesGet
  /\ bi' = 1
  /\ pc' = "gate_for"
  /\ UNCHANGED <<regVars, wfVars, cfgVars, exec_paths, ci, ai, reads, calls, result>>

UsesResolver_Always(bp) == TRUE

\* line 42: the candidate source of one requirement
UsesResolver(bp) == ~bp.path_provided

\* lines 40-42: next requirement, and its candidate list
GateFor ==
  /\ pc = "gate_for"
  /\ IF bi > Len(binaries)
     THEN /\ pc' = "gate_end"
          /\ UNCHANGED <<exec_paths, ci, reads>>
     ELSE /\ IF UsesResolver(binaries[bi])
             THEN \E l \in CandLists :
                    /\ exec_paths' = l
                    /\ reads' = Append(reads, [binary |-> binaries[bi].binary, exec_paths |-> l])
             ELSE /\ exec_paths' = binaries[bi].binary_path.paths
                  /\ UNCHANGED reads
          /\ ci' = 1
          /\ pc' = "gate_try"
  /\ UNCHANGED <<regVars, wfVars, cfgVars, binaries, extCalls, binaries0, valid_paths, bi, ai, calls, result>>

\* lines 44-49: valid_path after the try block (a mismatch leaves it None)
ValidPathOf(out) == IF out.raises = "MisMatchRuntimeError" THEN NoneVal ELSE out.ret

GateCatches_Everything(out) == out.raises /= ""

\* line 47: the only fault the gate catches
GateCatches(out) == out.raises = "MisMatchRuntimeError"

Accepts_AnyReturn(out) == out.raises = ""

\* line 50: is the candidate taken
Accepts(out) == Truthy(ValidPathOf(out))

SetResolved_Forgotten(d, i, valid_path) == d

SetResolved_First(d, i, valid_path) ==
  [d EXCEPT ![1].binary_path = [list |-> FALSE, paths |-> <<valid_path>>]]

\* line 51: binary_path.binary_path = valid_path
SetResolved(d, i, valid_path) ==
  [d EXCEPT ![i].binary_path = [list |-> FALSE, paths |-> <<valid_path>>]]

AfterRejection_FailFast(i, n) == n + 1

\* lines 40-43: the candidates of requirement i of n ran out with none accepted;
\* the loop over the requirements goes on
AfterRejection(i, n) == i + 1

\* lines 43-53: one candidate of the current requirement
GateTry ==
  /\ pc = "gate_try"
  /\ IF ci > Len(exec_paths)
     THEN /\ bi' = AfterRejection(bi, Len(binaries))
          /\ pc' = "gate_for"
          /\ UNCHANGED <<binaries, valid_paths, ci, calls, result>>
     ELSE \E out \in ValidatorOutcomes(exec_paths[ci]) :
            /\ calls' = Append(calls, ValidateCall(binaries[bi].binary, exec_paths[ci], out))
            /\ IF out.raises /= "" /\ ~GateCatches(out)
               THEN /\ result' = Propagated([type |-> out.raises, msg |-> out.msg])
                    /\ pc' = "done"
                    /\ UNCHANGED <<binaries, valid_paths, bi, ci>>
               ELSE IF Accepts(out)
                    THEN /\ binaries' = SetResolved(binaries, bi, ValidPathOf(out))
                         /\ valid_paths' = Append(valid_paths, ValidPathOf(out))
                         /\ bi' = bi + 1
                         /\ pc' = "gate_for"
                         /\ UNCHANGED <<ci, result>>
                    ELSE /\ ci' = ci + 1
                         /\ UNCHANGED <<binaries, valid_paths, bi, pc, result>>
  /\ UNCHANGED <<regVars, wfVars, cfgVars, extCalls, binaries0, exec_paths, ai, reads>>

GatePasses_AnyValid(n, valid) == n = 0 \/ Len(valid) > 0

\* line 55: does the gate let run() start
GatePasses(n, valid) == n = Len(valid)

\* lines 54-59: write back, compare the counts, raise or enter run()
GateEnd ==
  /\ pc = "gate_end"
  /\ binaries' = BinariesGet
  /\ extCalls' = extCalls + BinariesGetCalls
  /\ IF GatePasses(Len(BinariesGet), valid_paths)
     THEN /\ pc' = "run"
          /\ UNCHANGED result
     ELSE /\ result' = WorkflowFailedError(NAME, NoneVal, "Binary validation failed!")
          /\ pc' = "done"
  /\ UNCHANGED <<regVars, wfVars, cfgVars, gateVars, binaries0, ai, reads, calls>>

\* ------------------------------------------------------------- BaseWorkflow.run
IsEmptyPipeline_Never(acts) == FALSE

\* line 225: not self.actions
IsEmptyPipeline(acts) == acts = <<>>

\* lines 223-228: an empty pipeline is a fault
RunBody ==
  /\ pc = "run"
  /\ IF IsEmptyPipeline(actions)
     THEN /\ result' = WorkflowFailedError(NAME, NoneVal, "Workflow does not have any actions registered")
          /\ pc' = "done"
          /\ UNCHANGED ai
     ELSE /\ ai' = 1
          /\ pc' = "run_for"
          /\ UNCHANGED result
  /\ UNCHANGED <<regVars, wfVars, cfgVars, gateVars, binaries, extCalls, binaries0, reads, calls>>

ActionFault_NoActionName(a, ex) ==
  IF ex.type = "ActionFailedError" THEN WorkflowFailedError(NAME, NoneVal, Str(ex))
  ELSE IF IsException(ex.type) THEN WorkflowUnknownError(NAME, a, Str(ex))
  ELSE Propagated(ex)

ActionFault_ExceptionFirst(a, ex) ==
  IF IsException(ex.type) THEN WorkflowUnknownError(NAME, a, Str(ex))
  ELSE Propagated(ex)

NextIndex_Skip(i) == i + 2

\* line 230: the for loop moves to the next action
NextIndex(i) == i + 1

\* lines 240-251: the fault run() raises for a fault of action a
ActionFault(a, ex) ==
  IF ex.type = "ActionFailedError" THEN WorkflowFailedError(NAME, a, Str(ex))
  ELSE IF IsException(ex.type) THEN WorkflowUnknownError(NAME, a, Str(ex))
  ELSE Propagated(ex)

\* lines 230-251: one action, or the end of the list
RunFor ==
  /\ pc = "run_for"
  /\ IF ai > Len(actions)
     THEN /\ result' = Returned
          /\ pc' = "done"
          /\ UNCHANGED <<ai, calls>>
     ELSE \E out \in ActionOutcomes :
            /\ calls' = Append(calls, ExecuteCall(actions[ai], out))
            /\ IF out.raises = ""
               THEN /\ ai' = NextIndex(ai)
                    /\ UNCHANGED <<pc, result>>
               ELSE /\ result' = ActionFault(actions[ai], [type |-> out.raises, msg |-> out.msg])
                    /\ pc' = "done"
                    /\ UNCHANGED ai
  /\ UNCHANGED <<regVars, wfVars, cfgVars, gateVars, binaries, extCalls, binaries0, reads>>

Next == ProvidePath \/ RunEnter \/ GateFor \/ GateTry \/ GateEnd \/ RunBody \/ RunFor

Spec == Init /\ [][Next]_vars

\* the steps of run(): once called, it goes on as long as it has a step to take
RunStep == GateFor \/ GateTry \/ GateEnd \/ RunBody \/ RunFor

\* one call of run() on a new workflow
LiveNext == RunEnter \/ RunStep

LiveSpec == Init /\ [][LiveNext]_vars /\ WF_vars(RunStep)

\* ------------------------------------------------------------- is_supported
Basename_WholePath(path) == path

\* os.path.basename(path): what follows the last "/"
RECURSIVE Basename(_)
Basename(path) ==
  IF path = <<>> THEN <<>>
  ELSE IF path[Len(path)] = "/" THEN <<>>
  ELSE Append(Basename(SubSeq(path, 1, Len(path) - 1)), path[Len(path)])

\* lines 181-184
IsSupportedValue(path, manifests) ==
  IF manifests /= <<>> THEN Basename(path) \in Range(manifests) ELSE TRUE

\* lines 175-184: is_supported()
IsSupported ==
  /\ ~supported.called
  /\ supported' = [called |-> TRUE, ret |-> IsSupportedValue(config.manifest_path, SUPPORTED_MANIFESTS)]
  /\ UNCHANGED <<regVars, wfVars, gateVars, config, SUPPORTED_MANIFESTS, binaries, extCalls,
                 binaries0, pc, ai, reads, calls, result>>

\* is_supported() on workflows of any manifest path and any declared list
SupInit ==
  \E manifest \in ManifestPaths, manifests \in ManifestLists :
    /\ NewWorkflow(manifest, manifests)
    /\ actions = <<>> /\ resolvers = <<>> /\ nvalidators = 0

SupNext == IsSupported

SupSpec == SupInit /\ [][SupNext]_vars

\* one workflow with two requirements and one action, in a program that also
\* holds a class statement, executed before run() is called
FrameInit == Init /\ resolvers = <<"python", "pip">> /\ nvalidators = 2 /\ Len(actions) = 1

FrameDefine == DefineWorkflow /\ classes = <<>>

FrameNext == FrameDefine \/ RunEnter \/ RunStep

FrameSpec == FrameInit /\ [][FrameNext]_vars

\* class statements alone, with no workflow instance at work
RegInit == Init /\ actions = <<>> /\ resolvers = <<>> /\ nvalidators = 0

RegNext == DefineWorkflow

RegSpec == RegInit /\ [][RegNext]_vars

\* ------------------------------------------------------------- reading the logs
ValidateCalls(b) == {i \in 1..Len(calls) : calls[i].op = "validate" /\ calls[i].target = b}

ExecuteCalls == {i \in 1..Len(calls) : calls[i].op = "execute"}

\* the Validator returned a usable path
ReturnedUsablePath(c) == c.raises = "" /\ c.ret /= NoneVal /\ c.ret /= ""

AcceptedCalls(b) == {i \in ValidateCalls(b) : ReturnedUsablePath(calls[i])}

\* validate calls that raised something else than a runtime mismatch
ValidatorFaults ==
  {i \in 1..Len(calls) : calls[i].op = "validate" /\ calls[i].raises \notin {"", "MisMatchRuntimeError"}}

ActionFaults == {i \in ExecuteCalls : calls[i].raises /= ""}

\* the paths handed to the Validator of requirement b, in call order
Validated(b) ==
  LET v == SelectSeq(calls, LAMBDA c : c.op = "validate" /\ c.target = b)
  IN [i \in 1..Len(v) |-> v[i].arg]

\* the names of the actions executed, in call order
Executed ==
  LET e == SelectSeq(calls, LAMBDA c : c.op = "execute")
  IN [i \in 1..Len(e) |-> e[i].target]

IsPrefix(s, t) == Len(s) <= Len(t) /\ s = SubSeq(t, 1, Len(s))

\* what the resolver of requirement b returned, each time it was asked
ResolverReads(b) == SelectSeq(reads, LAMBDA r : r.binary = b)

\* the gate has finished with requirement j
Attempted(j) == bi > j

\* every candidate of requirement j was tried and none was accepted
AllRejected(j) == Attempted(j) /\ AcceptedCalls(binaries[j].binary) = {}

Satisfied(j) == AcceptedCalls(binaries[j].binary) /= {}

AllSatisfied == \A j \in 1..Len(binaries) : Satisfied(j)

BinaryValidationFailed ==
  [kind |-> "WorkflowFailedError", workflow_name |-> NAME, action_name |-> NoneVal,
   reason |-> "Binary validation failed!"]

NoActionsRegistered ==
  [kind |-> "WorkflowFailedError", workflow_name |-> NAME, action_name |-> NoneVal,
   reason |-> "Workflow does not have any actions registered"]

\* run() ended with the fault call c raised, unchanged
EndedWithFaultOf(c) ==
  result = [kind |-> c.raises, workflow_name |-> NoneVal, action_name |-> NoneVal, reason |-> c.msg]

\* run() ended in the gate: binary-validation-failed, or the fault a Validator raised
EndedInGate ==
  IF ValidatorFaults = {} THEN result = BinaryValidationFailed
  ELSE Len(calls) \in ValidatorFaults /\ EndedWithFaultOf(calls[Len(calls)])

\* ------------------------------------------------------------- C1
\* C1 as stated: if some requirement had all its candidates rejected, run() ends
\* with WorkflowFailedError(NAME, None, 'Binary validation failed!') and no Action
\* was executed.
C1_Original ==
  (pc = "done" /\ \E j \in 1..Len(binaries) : AllRejected(j))
    => (result = BinaryValidationFailed /\ ExecuteCalls = {})

\* C1, amended: if some requirement has no accepted candidate, no Action is
\* executed, and run() ends with the binary-validation-failed fault unless a
\* Validator raised a fault other than a runtime mismatch, in which case run() ends
\* with that fault.
C1_GateFailureRunsNoAction ==
  (pc = "done" /\ \E j \in 1..Len(binaries) : ~Satisfied(j))
    => (ExecuteCalls = {} /\ EndedInGate)

C1_Witness ==
  /\ pc = "done"
  /\ result = BinaryValidationFailed
  /\ actions /= <<>>
  /\ \E j, k \in 1..Len(binaries) : AllRejected(j) /\ Validated(binaries[j].binary) /= <<>> /\ Satisfied(k)

\* ------------------------------------------------------------- C2
\* C2: every validate call precedes the first execute call, and an Action is
\* executed only when every requirement has been attempted and has an accepted
\* candidate.
C2_ValidationBeforeActions ==
  /\ \A i, j \in 1..Len(calls) :
       (i < j /\ calls[i].op = "execute") => calls[j].op /= "validate"
  /\ ExecuteCalls /= {} =>
       \A j \in 1..Len(binaries) : Attempted(j) /\ Satisfied(j)

C2_Witness ==
  /\ ExecuteCalls /= {}
  /\ Len(binaries) = 2
  /\ \E i \in 1..Len(calls) : calls[i].raises = "MisMatchRuntimeError"

\* ------------------------------------------------------------- C3
\* the gate let run() start
GatePassed == pc \in {"run", "run_for", "done"} /\ ValidatorFaults = {} /\ AllSatisfied

\* C3 as stated: with the gate passed, the executed actions are a prefix of the
\* action list, the prefix is the whole list exactly when no Action raises, and
\* then run() returns without a fault.
C3_Original ==
  /\ IsPrefix(Executed, actions)
  /\ (pc = "done" /\ GatePassed) =>
       /\ (Executed = actions) <=> (ActionFaults = {})
       /\ (ActionFaults = {}) => result = Returned

\* C3, amended: with the gate passed, the executed actions are a prefix of the
\* action list in registration order, each executed once and nothing after the
\* first Action that raises; if no Action raises the prefix is the whole list
\* (it is the whole list too when only the last Action raises); run() returns
\* without a fault exactly when the list is not empty and no Action raises.
C3_ActionsRunInOrder ==
  /\ IsPrefix(Executed, actions)
  /\ \A i \in ActionFaults : i = Len(calls)
  /\ (pc = "done" /\ GatePassed) =>
       /\ (ActionFaults = {}) => Executed = actions
       /\ (result = Returned) <=> (actions /= <<>> /\ ActionFaults = {})

C3_Witness ==
  /\ pc = "done"
  /\ GatePassed
  /\ result = Returned
  /\ Len(actions) = MaxActions
  /\ Executed = actions

\* ------------------------------------------------------------- C4
\* C4: when an Action raises ActionFailedError, it and the actions before it were
\* each executed once in order, no later Action is executed, and run() ends with
\* WorkflowFailedError(NAME, that Action's NAME, str(fault)).
C4_ActionFailedStopsPipeline ==
  \A i \in ExecuteCalls :
    calls[i].raises = "ActionFailedError" =>
      /\ pc = "done"
      /\ i = Len(calls)
      /\ Executed = SubSeq(actions, 1, Len(Executed))
      /\ calls[i].target = actions[Len(Executed)]
      /\ \A k \in ExecuteCalls \ {i} : calls[k].raises = ""
      /\ result = [kind |-> "WorkflowFailedError", workflow_name |-> NAME,
                   action_name |-> calls[i].target, reason |-> calls[i].msg]

C4_Witness ==
  /\ pc = "done"
  /\ Len(actions) = 2
  /\ Len(Executed) = 1
  /\ calls[Len(calls)].raises = "ActionFailedError"
  /\ result.action_name = actions[1]

\* ------------------------------------------------------------- C5
\* C5 as stated: when an Action raises any fault other than ActionFailedError,
\* run() ends with WorkflowUnknownError(NAME, that Action's NAME, str(fault)).
C5_Original ==
  \A i \in ExecuteCalls :
    calls[i].raises \notin {"", "ActionFailedError"} =>
      result = [kind |-> "WorkflowUnknownError", workflow_name |-> NAME,
                action_name |-> calls[i].target, reason |-> calls[i].msg]

\* C5, amended: when an Action raises a fault other than ActionFailedError that
\* is an Exception, run() ends with WorkflowUnknownError(NAME, that Action's NAME,
\* str(fault)) and no later Action is executed; a fault that is no Exception
\* (KeyboardInterrupt, SystemExit) ends run() unchanged, as neither workflow
\* fault; an ActionFailedError is never reported as WorkflowUnknownError.
C5_UnknownFaultStopsPipeline ==
  \A i \in ExecuteCalls :
    /\ calls[i].raises \in {"RuntimeError"} =>
         /\ pc = "done"
         /\ i = Len(calls)
         /\ result = [kind |-> "WorkflowUnknownError", workflow_name |-> NAME,
                      action_name |-> calls[i].target, reason |-> calls[i].msg]
    /\ calls[i].raises \in {"KeyboardInterrupt"} =>
         /\ pc = "done"
         /\ i = Len(calls)
         /\ EndedWithFaultOf(calls[i])
    /\ calls[i].raises = "ActionFailedError" => result.kind /= "WorkflowUnknownError"

C5_Witness ==
  /\ pc = "done"
  /\ Len(actions) = 2
  /\ Len(Executed) = 1
  /\ calls[Len(calls)].raises = "RuntimeError"
  /\ result.kind = "WorkflowUnknownError"

\* ------------------------------------------------------------- C6
\* the candidate list requirement j of the map run() found was to be tried with
OverrideOf(j) == binaries0[j].binary_path.paths

\* C6: for a requirement with an override path the resolver is never read and
\* the paths validated are the override candidates in their order; for one
\* without, the paths validated are those the resolver returned.
C6_OverrideBypassesResolver ==
  \A j \in 1..Len(binaries0) :
    LET b == binaries0[j].binary
    IN IF binaries0[j].path_provided
       THEN /\ ResolverReads(b) = <<>>
            /\ IsPrefix(Validated(b), OverrideOf(j))
       ELSE /\ Len(ResolverReads(b)) <= 1
            /\ IF ResolverReads(b) = <<>> THEN Validated(b) = <<>>
               ELSE IsPrefix(Validated(b), ResolverReads(b)[1].exec_paths)

C6_Witness ==
  /\ pc = "done"
  /\ Len(binaries0) = 2
  /\ binaries0[1].path_provided
  /\ ~binaries0[2].path_provided
  /\ Len(Validated(binaries0[1].binary)) = 1
  /\ Len(Validated(binaries0[2].binary)) = 2
  /\ reads /= <<>>
  /\ reads[1].exec_paths /= OverrideOf(1)

\* ------------------------------------------------------------- C7
\* the candidate list the gate was to try for requirement j
CandidatesOf(j) ==
  IF binaries0[j].path_provided THEN OverrideOf(j)
  ELSE IF ResolverReads(binaries0[j].binary) = <<>> THEN <<>>
  ELSE ResolverReads(binaries0[j].binary)[1].exec_paths

\* C7: candidates are validated in list order up to the first accepted one, no
\* candidate after it is validated, the requirement's resolved path is what the
\* Validator returned for it, and that is what the binaries map holds while the
\* Actions execute.
C7_FirstAcceptedCandidateWins ==
  \A j \in 1..Len(binaries0) :
    LET b == binaries0[j].binary
        n == Len(Validated(b))
    IN /\ Validated(b) = SubSeq(CandidatesOf(j), 1, n)
       /\ \A i \in AcceptedCalls(b) :
            /\ \A k \in ValidateCalls(b) : k <= i
            /\ binaries[j].binary = b
            /\ binaries[j].binary_path = [list |-> FALSE, paths |-> <<calls[i].ret>>]
       /\ (Attempted(j) /\ AcceptedCalls(b) = {}) => n = Len(CandidatesOf(j))

C7_Witness ==
  /\ pc = "run_for"
  /\ ExecuteCalls /= {}
  /\ Len(binaries0) = 2
  /\ Len(CandidatesOf(1)) = 2 /\ Len(Validated(binaries0[1].binary)) = 1
  /\ Len(CandidatesOf(2)) = 2 /\ Len(Validated(binaries0[2].binary)) = 2
  /\ binaries[2].binary_path.paths = <<Realpath(CandidatesOf(2)[2])>>

\* ------------------------------------------------------------- C8
\* C8 as stated: with no actions registered, run() ends with the no-actions
\* fault if every requirement is satisfied, and with binary-validation-failed if
\* some requirement had all its candidates rejected.
C8_Original ==
  (pc = "done" /\ actions = <<>>) =>
    /\ (ValidatorFaults = {} /\ AllSatisfied) => result = NoActionsRegistered
    /\ (\E j \in 1..Len(binaries) : AllRejected(j)) => result = BinaryValidationFailed

\* C8, amended: with no actions registered, run() ends with the no-actions fault
\* if every requirement is satisfied; if some requirement is not, run() ends in
\* the gate instead, with binary-validation-failed or with the fault a Validator
\* raised, because the gate runs before the empty-pipeline check.
C8_EmptyPipelineAfterGate ==
  (pc = "done" /\ actions = <<>>) =>
    IF ValidatorFaults = {} /\ AllSatisfied THEN result = NoActionsRegistered
    ELSE EndedInGate

C8_Witness ==
  /\ pc = "done"
  /\ actions = <<>>
  /\ Len(binaries) = 2
  /\ result = NoActionsRegistered
  /\ \E i \in 1..Len(calls) : calls[i].raises = "MisMatchRuntimeError"

\* ------------------------------------------------------------- C9
\* the classes created so far that register themselves under key k
RegisteringClasses(k) ==
  {i \in 1..Len(classes) :
     /\ classes[i].name /= "BaseWorkflow"
     /\ ~classes[i].TESTING
     /\ classes[i].CAPABILITY = k}

Latest(S) == CHOOSE i \in S : \A j \in S : j <= i

\* C9: the registry maps each key to the latest class defined with it that is
\* neither marked __TESTING__ nor named BaseWorkflow; such classes are never in
\* the registry and defining one leaves it as it was.
C9_LastRegistrationWins ==
  /\ \A k \in DOMAIN registry :
       RegisteringClasses(k) /= {} /\ registry[k] = Latest(RegisteringClasses(k))
  /\ \A k \in CapabilityValues : RegisteringClasses(k) /= {} => k \in DOMAIN registry
  /\ (lastDef.cls.name = "BaseWorkflow" \/ lastDef.cls.TESTING) => registry = lastDef.before

C9_Witness ==
  /\ Len(classes) = 3
  /\ classes[1].CAPABILITY = classes[2].CAPABILITY
  /\ classes[3].CAPABILITY = classes[2].CAPABILITY
  /\ classes[3].TESTING
  /\ DOMAIN registry = {classes[1].CAPABILITY}
  /\ registry[classes[1].CAPABILITY] = 2

\* ------------------------------------------------------------- C10
NonEmptyName(v) == v.type = "str" /\ v.val /= ""

\* all three components are there (a None application framework is the explicit
\* "none"), which every Capability instance gives
FullyPopulatedKey(v) == v.type = "Capability"

\* C10 as stated: defining a class (not testing, not the base) whose name is
\* missing or empty or whose key is missing or not fully populated fails with a
\* registration fault and leaves the registry unchanged; only classes with a
\* non-empty name and a fully populated key are in the registry.
C10_Original ==
  /\ ( /\ lastDef.outcome /= "none"
       /\ lastDef.cls.name /= "BaseWorkflow"
       /\ ~lastDef.cls.TESTING
       /\ (~NonEmptyName(lastDef.cls.NAME) \/ ~FullyPopulatedKey(lastDef.cls.CAPABILITY)) )
     => (lastDef.outcome \notin {"registered", "skipped"} /\ registry = lastDef.before)
  /\ \A k \in DOMAIN registry :
       NonEmptyName(classes[registry[k]].NAME) /\ FullyPopulatedKey(k)

\* ------------------------------------------------------------- C11
\* C11: a fault of a Validator other than a runtime mismatch ends run() with that
\* same fault: it is the last call run() makes (no further candidate, no further
\* requirement, no Action), it is not turned into binary-validation-failed, and
\* its candidate is not simply rejected. A runtime mismatch never ends run():
\* after it the gate stands at the next candidate of the same requirement, if
\* there is one.
C11_ValidatorFaultPropagates ==
  /\ \A i \in ValidatorFaults :
       /\ i = Len(calls)
       /\ pc = "done"
       /\ EndedWithFaultOf(calls[i])
       /\ result /= BinaryValidationFailed
       /\ ExecuteCalls = {}
  /\ \A i \in 1..Len(calls) :
       calls[i].raises = "MisMatchRuntimeError" =>
         /\ ~EndedWithFaultOf(calls[i])
         /\ LET j == IndexOf(binaries0, calls[i].target)
                n == Len(Validated(calls[i].target))
            IN (i = Len(calls) /\ n < Len(CandidatesOf(j))) =>
                 (pc = "gate_try" /\ bi = j /\ ci = n + 1)

C11_Witness ==
  /\ pc = "done"
  /\ actions /= <<>>
  /\ Len(binaries0) = 2
  /\ Len(calls) = 3
  /\ calls[1].raises = "MisMatchRuntimeError"
  /\ ReturnedUsablePath(calls[2])
  /\ calls[3].raises = "OSError"
  /\ calls[3].target = binaries0[2].binary
  /\ Len(CandidatesOf(2)) = 2

\* ------------------------------------------------------------- C12
\* name is the final component of path: what stands after the last "/" of path,
\* or all of path if it has none
IsFinalComponent(path, name) ==
  \E k \in 0..Len(path) :
    /\ k = 0 \/ path[k] = "/"
    /\ name = SubSeq(path, k + 1, Len(path))
    /\ \A i \in (k + 1)..Len(path) : path[i] /= "/"

\* C12: is_supported() returns true exactly when SUPPORTED_MANIFESTS is empty or
\* the final component of manifest_path is one of its members, and the call
\* leaves the manifest path, the list and everything else of the workflow as
\* they were.
C12_IsSupported ==
  [][ /\ supported'.called
      /\ supported'.ret =
           ( \/ SUPPORTED_MANIFESTS = <<>>
             \/ \E i \in 1..Len(SUPPORTED_MANIFESTS) :
                  IsFinalComponent(config.manifest_path, SUPPORTED_MANIFESTS[i]) )
      /\ UNCHANGED <<config, SUPPORTED_MANIFESTS, regVars, wfVars, gateVars, binaries,
                     extCalls, binaries0, pc, ai, reads, calls, result>> ]_vars

\* answered "no" for a manifest in a directory that is named like a supported manifest
C12_Witness ==
  /\ supported.called
  /\ ~supported.ret
  /\ config.manifest_path = <<"a", "/", "b">>
  /\ SUPPORTED_MANIFESTS = << <<"a">>, <<"a", "b">> >>

\* ------------------------------------------------------------- C13
\* C13 as stated: once a requirement is found unsatisfied, no Validator is called
\* for any requirement after it.
C13_Original ==
  \A j \in 1..Len(binaries), k \in 1..Len(binaries) :
    (j < k /\ AllRejected(j)) => ValidateCalls(binaries[k].binary) = {}

\* C13, amended: the gate does not stop at the first unsatisfied requirement.
\* When run() ends with binary-validation-failed, every requirement has been
\* attempted: its candidates were obtained and validated up to the first
\* accepted one, or all of them if none was accepted; and no Action was executed.
C13_GateAttemptsEveryRequirement ==
  result = BinaryValidationFailed =>
    /\ ExecuteCalls = {}
    /\ \E j \in 1..Len(binaries0) : AllRejected(j)
    /\ \A j \in 1..Len(binaries0) :
         LET b == binaries0[j].binary
         IN /\ Attempted(j)
            /\ binaries0[j].path_provided \/ Len(ResolverReads(b)) = 1
            /\ Satisfied(j) \/ Validated(b) = CandidatesOf(j)

\* the first requirement had its two candidates rejected, and the second
\* requirement was validated all the same
C13_Witness ==
  /\ result = BinaryValidationFailed
  /\ Len(binaries0) = 2
  /\ AllRejected(1)
  /\ Len(Validated(binaries0[1].binary)) = 2
  /\ Satisfied(2)
  /\ Len(Validated(binaries0[2].binary)) = 2

\* ------------------------------------------------------------- C14
\* the gate let run() start its body
GateOpened ==
  \/ pc \in {"run", "run_for"}
  \/ pc = "done" /\ result /= BinaryValidationFailed /\ ValidatorFaults = {}

\* some candidate of requirement j got a usable (non-empty) path from the Validator
HasUsableCandidate(j) ==
  \E i \in ValidateCalls(binaries0[j].binary) :
    /\ calls[i].arg \in Range(CandidatesOf(j))
    /\ calls[i].raises = ""
    /\ calls[i].ret \notin {NoneVal, ""}

\* C14: the gate passes if and only if every requirement of the binaries map has
\* a candidate for which the Validator returned a usable path; a None or empty
\* return is a rejection (it adds nothing to the count of validated paths), and
\* a workflow with no requirement passes.
C14_GatePassesIffAllSatisfied ==
  /\ pc \in {"run", "run_for", "done"} =>
       (GateOpened <=> \A j \in 1..Len(binaries0) : HasUsableCandidate(j))
  /\ pc /= "idle" =>
       Len(valid_paths) = Cardinality({j \in 1..Len(binaries0) : HasUsableCandidate(j)})

\* the gate passed although Validators returned None and "" on the way
C14_Witness ==
  /\ GateOpened
  /\ Len(binaries0) = 2
  /\ Len(calls) >= 4
  /\ calls[1].raises = "" /\ calls[1].ret = NoneVal
  /\ calls[3].raises = "" /\ calls[3].ret = ""
  /\ ReturnedUsablePath(calls[2])
  /\ ReturnedUsablePath(calls[4])

\* ------------------------------------------------------------- C15
\* the binaries property has been read at least once
BinariesAccessed == pc /= "idle" \/ binaries /= <<>>

\* C15 as stated: get_resolvers() and get_validators() are invoked exactly once
\* per workflow instance, at the first access to the binaries map, and never
\* again, whether or not the map they yield is empty.
C15_Original ==
  /\ extCalls <= 1
  /\ BinariesAccessed => extCalls = 1

\* ------------------------------------------------------------- C16
\* requirement j holds path p as its resolved path
ResolvedTo(j, p) == binaries[j].binary_path = [list |-> FALSE, paths |-> <<p>>]

\* C16 as stated: once the gate has validated a requirement, its resolved path is
\* a member of the candidate list that was tried, whatever the Validator returned.
C16_Original ==
  \A j \in 1..Len(binaries0) :
    (Attempted(j) /\ Satisfied(j)) => \E c \in Range(CandidatesOf(j)) : ResolvedTo(j, c)

\* C16, amended: once the gate has validated a requirement, its resolved path is
\* the value the Validator returned for a member of the candidate list that was
\* tried (the override list if one was supplied, else the Resolver's list); it
\* is itself a member of that list when the Validator returned the candidate
\* unchanged.
C16_ResolvedFromTriedCandidate ==
  \A j \in 1..Len(binaries0) :
    (Attempted(j) /\ Satisfied(j)) =>
      \E i \in AcceptedCalls(binaries0[j].binary) :
        /\ calls[i].arg \in Range(CandidatesOf(j))
        /\ ResolvedTo(j, calls[i].ret)
        /\ calls[i].ret = calls[i].arg => \E c \in Range(CandidatesOf(j)) : ResolvedTo(j, c)

\* one requirement resolved to a candidate of the caller's list, the other to a
\* normalized path that is not in the Resolver's list
C16_Witness ==
  /\ pc = "run"
  /\ Len(binaries0) = 2
  /\ binaries0[1].path_provided
  /\ \E c \in Range(OverrideOf(1)) : ResolvedTo(1, c)
  /\ ~binaries0[2].path_provided
  /\ Len(CandidatesOf(2)) = 2
  /\ ResolvedTo(2, Realpath(CandidatesOf(2)[2]))
  /\ \A c \in Range(CandidatesOf(2)) : ~ResolvedTo(2, c)

\* ------------------------------------------------------------- C17
\* C17 as stated: when run() ends with binary-validation-failed or with the fault
\* a Validator raised, every requirement's resolved or override path is what it
\* was before run().
C17_Original ==
  (pc = "done" /\ (result = BinaryValidationFailed \/ ValidatorFaults /= {})) =>
    /\ Len(binaries) = Len(binaries0)
    /\ \A j \in 1..Len(binaries0) : binaries[j].binary_path = binaries0[j].binary_path

\* ------------------------------------------------------------- C18
\* the calls that raised a fault run() does not handle inside the gate
Faults == ValidatorFaults \cup ActionFaults

LastCall == calls[Len(calls)]

\* the ways run() can end, by number
Outcome(k) ==
  CASE k = 1 -> result = Returned /\ Faults = {}
    [] k = 2 -> result = BinaryValidationFailed /\ Faults = {} /\ ExecuteCalls = {}
    [] k = 3 -> result = NoActionsRegistered /\ Faults = {} /\ ExecuteCalls = {}
    [] k = 4 -> /\ Len(calls) \in ActionFaults
                /\ LastCall.raises = "ActionFailedError"
                /\ result = WorkflowFailedError(NAME, LastCall.target, LastCall.msg)
    [] k = 5 -> /\ Len(calls) \in ActionFaults
                /\ LastCall.raises /= "ActionFailedError"
                /\ result = WorkflowUnknownError(NAME, LastCall.target, LastCall.msg)
    [] k = 6 -> Len(calls) \in ValidatorFaults /\ EndedWithFaultOf(LastCall)
    [] k = 7 -> Len(calls) \in ActionFaults /\ EndedWithFaultOf(LastCall)

\* run() ended in exactly one of the outcomes K; while it runs no fault has arisen;
\* at most one fault arises and it is the last call made
OneOutcomeOf(K) ==
  /\ pc = "done" => Cardinality({k \in K : Outcome(k)}) = 1
  /\ pc /= "done" => (result = NoResult /\ Faults = {})
  /\ Cardinality(Faults) <= 1
  /\ \A i \in Faults : i = Len(calls)

PairedPositions == {i \in 1..Len(resolvers) : i <= nvalidators}

\* C19: once computed, the binaries map has one requirement per binary name among
\* the resolvers that have a validator at their position, each made of the last
\* such resolver of that name and the validator at the same position; a resolver
\* or validator without a partner yields no requirement and the gate never asks
\* or validates it; and the gate passes on as many validated paths as the map
\* has entries, however many resolvers there are.
C19_BinariesPairPositionally ==
  BinariesAccessed =>
    /\ Keys(binaries) = {resolvers[i] : i \in PairedPositions}
    /\ Len(binaries) = Cardinality(Keys(binaries))
    /\ \A j \in 1..Len(binaries) :
         /\ binaries[j].pair \in PairedPositions
         /\ resolvers[binaries[j].pair] = binaries[j].binary
         /\ \A i \in PairedPositions : resolvers[i] = binaries[j].binary => i <= binaries[j].pair
    /\ \A i \in 1..Len(calls) : calls[i].op = "validate" => calls[i].target \in Keys(binaries)
    /\ \A i \in 1..Len(reads) : reads[i].binary \in Keys(binaries)
    /\ Len(reads) <= Len(binaries)
    /\ pc \in {"run", "run_for", "done"} =>
         (GateOpened <=> Len(valid_paths) = Cardinality({resolvers[i] : i \in PairedPositions}))

\* two resolvers of the same name: one requirement, made of the second pair
C19_Witness ==
  /\ pc = "run"
  /\ resolvers = <<"python", "python">>
  /\ nvalidators = 2
  /\ Len(binaries) = 1
  /\ binaries[1].pair = 2
  /\ Len(valid_paths) = 1

\* ------------------------------------------------------------- C20
\* the step is a step of run()
InRun == pc /= "idle" \/ pc' /= "idle"

\* the step leaves requirement j as it is, but for its resolved path, and that
\* changes only by the Validator's usable answer for requirement j in this step
OnlyResolvedPathChanges(j) ==
  /\ binaries'[j].binary = binaries[j].binary
  /\ binaries'[j].pair = binaries[j].pair
  /\ binaries'[j].binary_path /= binaries[j].binary_path =>
       /\ j = bi
       /\ Len(calls') = Len(calls) + 1
       /\ calls'[Len(calls')].target = binaries[j].binary
       /\ ReturnedUsablePath(calls'[Len(calls')])

\* C20: no step of run() changes the action list, the configuration fields or
\* the registry; of the binaries map a step changes only resolved paths (and
\* computes the map if it was not there). The registry changes only by a class
\* statement that registers a workflow type, outside run().
C20_RunChangesOnlyResolvedPaths ==
  [][ /\ actions' = actions
      /\ config' = config
      /\ SUPPORTED_MANIFESTS' = SUPPORTED_MANIFESTS
      /\ InRun =>
           /\ registry' = registry
           /\ classes' = classes
           /\ Len(binaries') = Len(BinariesGet)
           /\ binaries /= <<>> =>
                \A j \in 1..Len(binaries) : OnlyResolvedPathChanges(j)
      /\ registry' /= registry =>
           /\ ~InRun
           /\ classes' /= classes
           /\ lastDef'.outcome = "registered" ]_vars

\* run() returned, with both requirements resolved, in a program that has
\* registered a workflow type
C20_Witness ==
  /\ result = Returned
  /\ registry /= <<>>
  /\ Len(binaries) = 2
  /\ binaries[1].binary_path /= binaries0[1].binary_path
  /\ binaries[2].binary_path /= binaries0[2].binary_path

====
